---- MODULE Spec2Model ----
(***************************************************************************)
(* Model of the manual generator (Markdown + screenshots -> paged print    *)
(* document).  Strings are sequences of one-character strings so that the  *)
(* code's split / join / trim / regular expressions are computed, not      *)
(* assumed.                                                                *)
(***************************************************************************)
EXTENDS Integers, Sequences, FiniteSets, TLC

(***************************************************************************)
(* Bounds of the model                                                     *)
(***************************************************************************)
MaxLines == 3
MaxShots == 2

MaxNodes == 4
\* the longest rendered node sequence an export is run on, and the number of
\* exports requested in a session
MaxExportNodes == 2
MaxExports == 2
\* the number of image uploads started in a session
MaxBatches == 2
\* the number of Markdown files picked in one session
MaxSelections == 2

\* null as a resolver result, and as an absent string (no capture, no key)
null == "null"

nullStr == <<>>

(***************************************************************************)
(* String primitives of the JavaScript runtime                             *)
(***************************************************************************)
Digits == {"0", "1", "2", "3", "4", "5", "6", "7", "8", "9"}

Whitespace == {" ", "\n", "\t", "\r"}

DigitVal(c) ==
  CASE c = "0" -> 0 [] c = "1" -> 1 [] c = "2" -> 2 [] c = "3" -> 3 [] c = "4" -> 4
    [] c = "5" -> 5 [] c = "6" -> 6 [] c = "7" -> 7 [] c = "8" -> 8 [] c = "9" -> 9

DigitChar(n) ==
  CASE n = 0 -> "0" [] n = 1 -> "1" [] n = 2 -> "2" [] n = 3 -> "3" [] n = 4 -> "4"
    [] n = 5 -> "5" [] n = 6 -> "6" [] n = 7 -> "7" [] n = 8 -> "8" [] n = 9 -> "9"

Front(s) == SubSeq(s, 1, Len(s) - 1)

Last(s) == s[Len(s)]

Drop(s, n) == SubSeq(s, n + 1, Len(s))

\* parseInt on a string of decimal digits
RECURSIVE ParseInt(_)
ParseInt(ds) ==
  IF ds = <<>> THEN 0 ELSE ParseInt(Front(ds)) * 10 + DigitVal(Last(ds))

\* Number.prototype.toString / template-literal formatting of a non-negative integer
RECURSIVE IntToString(_)
IntToString(n) ==
  IF n < 10 THEN <<DigitChar(n)>> ELSE IntToString(n \div 10) \o <<DigitChar(n % 10)>>

\* the longest prefix of s made of characters of set cs (a greedy cs* / cs+)
RECURSIVE TakeWhile(_, _)
TakeWhile(s, cs) ==
  IF s = <<>> \/ s[1] \notin cs THEN <<>> ELSE <<s[1]>> \o TakeWhile(Tail(s), cs)

\* String.prototype.split(sep) for a one-character separator: the pieces
\* between consecutive separators, from before the first to after the last
SepPositions(s, sep) == {i \in 1..Len(s) : s[i] = sep}

\* the pieces from position from on, ps being the separators not yet passed
RECURSIVE SplitAt(_, _, _)
SplitAt(s, ps, from) ==
  IF ps = {} THEN <<SubSeq(s, from, Len(s))>>
  ELSE LET p == CHOOSE x \in ps : \A y \in ps : x <= y
       IN  <<SubSeq(s, from, p - 1)>> \o SplitAt(s, ps \ {p}, p + 1)

Split(s, sep) == SplitAt(s, SepPositions(s, sep), 1)

\* Array.prototype.join(sep) for a one-character separator
RECURSIVE Join(_, _)
Join(parts, sep) ==
  IF parts = <<>> THEN <<>>
  ELSE IF Len(parts) = 1 THEN parts[1]
  ELSE parts[1] \o <<sep>> \o Join(Tail(parts), sep)

\* String.prototype.trim
RECURSIVE TrimLeft(_)
TrimLeft(s) ==
  IF s # <<>> /\ s[1] \in Whitespace THEN TrimLeft(Tail(s)) ELSE s

RECURSIVE TrimRight(_)
TrimRight(s) ==
  IF s # <<>> /\ Last(s) \in Whitespace THEN TrimRight(Front(s)) ELSE s

Trim(s) == TrimRight(TrimLeft(s))

(***************************************************************************)
(* Asset Index and Reference Resolver                                      *)
(***************************************************************************)
\* Map.prototype.set
MapSet(m, k, v) == [x \in (DOMAIN m) \cup {k} |-> IF x = k THEN v ELSE m[x]]

EmptyMap == [x \in {} |-> null]

\* an index in which the first asset of a name keeps the name
RECURSIVE imageMapFirstWins(_)
imageMapFirstWins(shots) ==
  IF shots = <<>> THEN EmptyMap
  ELSE MapSet(imageMapFirstWins(Tail(shots)), shots[1].name, shots[1].dataUrl)

\* imageMap: screenshots.forEach(img => map.set(img.name, img.dataUrl))
RECURSIVE imageMap(_)
imageMap(shots) ==
  IF shots = <<>> THEN EmptyMap
  ELSE MapSet(imageMap(Front(shots)), Last(shots).name, Last(shots).dataUrl)

\* Map.prototype.get(k) || null
MapGetOrNull(m, k) == IF k \in DOMAIN m /\ m[k] # "" THEN m[k] ELSE null

\* a resolver that keeps the first path segment instead of the last
BaseNameFirstSegment(src) == Split(src, "/")[1]

\* src.split('/').pop()
BaseName(src) == Last(Split(src, "/"))

\* resolveImageSrc, and the lookup inlined in markdownComponents.img
resolveImageSrc(shots, src) ==
  LET fileName == BaseName(src)
  IN  IF fileName = <<>> THEN null ELSE MapGetOrNull(imageMap(shots), fileName)

\* what markdownComponents.img returns: nothing, an <img> with the resolved
\* content, or the placeholder <div> with its text
RenderNull == [kind |-> "null", src |-> null, text |-> <<>>]

RenderImg(resolved) == [kind |-> "img", src |-> resolved, text |-> <<>>]

RenderPlaceholder(fileName) == [kind |-> "placeholder", src |-> null, text |-> fileName]

\* a component that renders nothing for a reference it cannot resolve
imgComponentDropsUnresolved(shots, src) ==
  IF src = <<>> THEN RenderNull
  ELSE LET resolved == resolveImageSrc(shots, src)
       IN  IF resolved # null THEN RenderImg(resolved) ELSE RenderNull

\* markdownComponents.img: ({ src, alt }) => ...
imgComponent(shots, src) ==
  IF src = <<>> THEN RenderNull
  ELSE LET resolved == resolveImageSrc(shots, src)
       IN  IF resolved # null THEN RenderImg(resolved)
           ELSE RenderPlaceholder(BaseName(src))

(***************************************************************************)
(* Auto-Linker: processedMarkdown                                          *)
(***************************************************************************)
\* /!\[.*?\]\(.*?\)/.test(markdownContent); '.' does not match a line break
NoLineBreak(s, from, to) == \A x \in from..to : s[x] \notin {"\n", "\r"}

mdHasImageRefs(md) ==
  \E i \in 1..(Len(md) - 1) :
    /\ md[i] = "!" /\ md[i + 1] = "["
    /\ \E j \in (i + 2)..(Len(md) - 1) :
         /\ md[j] = "]" /\ md[j + 1] = "("
         /\ NoLineBreak(md, i + 2, j - 1)
         /\ \E k \in (j + 2)..Len(md) :
              md[k] = ")" /\ NoLineBreak(md, j + 2, k - 1)

NoMatch == [matched |-> FALSE, g1 |-> nullStr, g2 |-> nullStr]

\* line.match(/^## (\d+)\.\s/)
h2Match(line) ==
  IF Len(line) >= 4 /\ SubSeq(line, 1, 3) = <<"#", "#", " ">>
  THEN LET d    == TakeWhile(Drop(line, 3), Digits)
           rest == Drop(line, 3 + Len(d))
       IN  IF d # <<>> /\ Len(rest) >= 2 /\ rest[1] = "." /\ rest[2] \in Whitespace
           THEN [matched |-> TRUE, g1 |-> d, g2 |-> nullStr]
           ELSE NoMatch
  ELSE NoMatch

\* line.match(/^### (\d+)[-.](\d+)/)
h3Match(line) ==
  IF Len(line) >= 5 /\ SubSeq(line, 1, 4) = <<"#", "#", "#", " ">>
  THEN LET d1   == TakeWhile(Drop(line, 4), Digits)
           rest == Drop(line, 4 + Len(d1))
       IN  IF d1 # <<>> /\ Len(rest) >= 2 /\ rest[1] \in {"-", "."}
              /\ rest[2] \in Digits
           THEN [matched |-> TRUE, g1 |-> d1, g2 |-> TakeWhile(Tail(rest), Digits)]
           ELSE NoMatch
  ELSE NoMatch

\* the heading scan: lines.forEach((line, index) => ... sections.push(...))
\* lineIndex is the 0-based index of the line, as in the code
RECURSIVE ScanSections(_, _)
ScanSections(lines, n) ==
  IF n = 0 THEN <<>>
  ELSE LET line == lines[n]
           m2   == h2Match(line)
           m3   == h3Match(line)
           prev == ScanSections(lines, n - 1)
       IN  IF m2.matched
           THEN Append(prev, [lineIndex |-> n - 1, key |-> m2.g1, level |-> 2])
           ELSE IF m3.matched
           THEN Append(prev, [lineIndex |-> n - 1,
                              key |-> IntToString(ParseInt(m3.g1)) \o <<".">>
                                      \o IntToString(ParseInt(m3.g2)),
                              level |-> 3])
           ELSE prev

Sections(lines) == ScanSections(lines, Len(lines))

SectionKeys(sections) == {sections[i].key : i \in 1..Len(sections)}

FileSeps == {"-", "_", "."}

\* 0*(\d+) applied to a maximal run of digits: the greedy 0* gives back one
\* zero when the run is all zeros, so the captured group is never empty
StripZeros(d) ==
  LET z == TakeWhile(d, {"0"})
  IN  IF Len(z) = Len(d) THEN <<Last(d)>> ELSE Drop(d, Len(z))

\* img.name.match(/^0*(\d+)[-_.](?:0*(\d+)[-_.])?/)
nameMatch(name) ==
  LET d1    == TakeWhile(name, Digits)
      rest1 == Drop(name, Len(d1))
  IN  IF d1 # <<>> /\ rest1 # <<>> /\ rest1[1] \in FileSeps
      THEN LET d2    == TakeWhile(Tail(rest1), Digits)
               rest2 == Drop(Tail(rest1), Len(d2))
           IN  IF d2 # <<>> /\ rest2 # <<>> /\ rest2[1] \in FileSeps
               THEN [matched |-> TRUE, g1 |-> StripZeros(d1), g2 |-> StripZeros(d2)]
               ELSE [matched |-> TRUE, g1 |-> StripZeros(d1), g2 |-> nullStr]
      ELSE NoMatch

\* major / minor / exactKey of a file name (nullStr when absent)
major(m) == IntToString(ParseInt(m.g1))

minor(m) == IF m.g2 # nullStr THEN IntToString(ParseInt(m.g2)) ELSE nullStr

exactKey(m) == IF minor(m) # nullStr THEN major(m) \o <<".">> \o minor(m) ELSE nullStr

\* a.name.localeCompare(b.name, 'ja', { numeric: true }): runs of digits compare
\* by value, other characters by collation weight (punctuation < digits < letters)
Weight(c) ==
  CASE c = "_" -> 1 [] c = "-" -> 2 [] c = "." -> 3
    [] c \in Digits -> 10
    [] c = "a" -> 20 [] c = "b" -> 21 [] c = "g" -> 26 [] c = "n" -> 33 [] c = "p" -> 35
    [] OTHER -> 50

RECURSIVE localeCompare(_, _)
localeCompare(a, b) ==
  IF a = <<>> /\ b = <<>> THEN 0
  ELSE IF a = <<>> THEN -1
  ELSE IF b = <<>> THEN 1
  ELSE IF a[1] \in Digits /\ b[1] \in Digits
  THEN LET da == TakeWhile(a, Digits)
           db == TakeWhile(b, Digits)
       IN  IF ParseInt(da) < ParseInt(db) THEN -1
           ELSE IF ParseInt(da) > ParseInt(db) THEN 1
           ELSE localeCompare(Drop(a, Len(da)), Drop(b, Len(db)))
  ELSE IF Weight(a[1]) < Weight(b[1]) THEN -1
  ELSE IF Weight(a[1]) > Weight(b[1]) THEN 1
  ELSE localeCompare(Tail(a), Tail(b))

\* [...screenshots].sort(cmp): a stable sort
RECURSIVE InsertSorted(_, _)
InsertSorted(sorted, img) ==
  IF sorted = <<>> THEN <<img>>
  ELSE IF localeCompare(Last(sorted).name, img.name) <= 0 THEN Append(sorted, img)
  ELSE Append(InsertSorted(Front(sorted), img), Last(sorted))

RECURSIVE sortedScreenshots(_)
sortedScreenshots(shots) ==
  IF shots = <<>> THEN <<>>
  ELSE InsertSorted(sortedScreenshots(Front(shots)), Last(shots))

\* a bucketing that tries the bare major before the exact major.minor key
BucketOfMajorFirst(img, sections) ==
  LET m == nameMatch(img.name)
  IN  IF m.matched
      THEN IF \E i \in 1..Len(sections) : sections[i].key = major(m)
           THEN major(m)
           ELSE IF exactKey(m) # nullStr
                   /\ \E i \in 1..Len(sections) : sections[i].key = exactKey(m)
           THEN exactKey(m)
           ELSE nullStr
      ELSE nullStr

\* the bucket a file is put in: a heading key, or nullStr for unmatchedScreenshots
BucketOf(img, sections) ==
  LET m == nameMatch(img.name)
  IN  IF m.matched
      THEN IF exactKey(m) # nullStr /\ \E i \in 1..Len(sections) : sections[i].key = exactKey(m)
           THEN exactKey(m)
           ELSE IF \E i \in 1..Len(sections) : sections[i].key = major(m)
           THEN major(m)
           ELSE nullStr
      ELSE nullStr

\* sortedScreenshots.forEach(...): screenshotsByKey and unmatchedScreenshots
RECURSIVE Grouping(_, _)
Grouping(sorted, sections) ==
  IF sorted = <<>> THEN [byKey |-> EmptyMap, unmatched |-> <<>>]
  ELSE LET g   == Grouping(Front(sorted), sections)
           img == Last(sorted)
           k   == BucketOf(img, sections)
       IN  IF k # nullStr
           THEN [g EXCEPT !.byKey =
                   MapSet(g.byKey, k,
                          IF k \in DOMAIN g.byKey THEN Append(g.byKey[k], img) ELSE <<img>>)]
           ELSE [g EXCEPT !.unmatched = Append(g.unmatched, img)]

screenshotsByKey(shots, sections) == Grouping(sortedScreenshots(shots), sections).byKey

unmatchedScreenshots(shots, sections) == Grouping(sortedScreenshots(shots), sections).unmatched

\* `\n![${img.name}](${img.name})\n`
imageLine(img) ==
  <<"\n", "!", "[">> \o img.name \o <<"]", "(">> \o img.name \o <<")", "\n">>

RECURSIVE imageLines(_)
imageLines(matched) ==
  IF matched = <<>> THEN <<>> ELSE <<imageLine(matched[1])>> \o imageLines(Tail(matched))

\* a splice that overwrites the line at the insertion point
SpliceReplacing(result, at, items) ==
  SubSeq(result, 1, at) \o items \o SubSeq(result, at + 2, Len(result))

\* result.splice(at, 0, ...items), at 0-based
Splice(result, at, items) ==
  SubSeq(result, 1, at) \o items \o SubSeq(result, at + 1, Len(result))

SeparatorLine == <<"-", "-", "-">>

\* a scan that never moves the insertion point before a rule
BacktrackSeparatorNever(result, j, lo, insertAt) == insertAt

\* for (j = insertAt - 1; j > section.lineIndex; j--) if (result[j]?.trim() === '---') ...
\* j and lo are 0-based; result[j] is undefined past the end
RECURSIVE BacktrackSeparator(_, _, _, _)
BacktrackSeparator(result, j, lo, insertAt) ==
  IF j <= lo THEN insertAt
  ELSE IF j + 1 <= Len(result) /\ Trim(result[j + 1]) = SeparatorLine THEN j
  ELSE BacktrackSeparator(result, j - 1, lo, insertAt)

\* a splice that puts the images right under the heading's own line
insertAtHeading(result, sections, i) == sections[i].lineIndex + 1

insertAt(result, sections, i) ==
  IF i + 1 <= Len(sections)
  THEN BacktrackSeparator(result, sections[i + 1].lineIndex - 1, sections[i].lineIndex,
                          sections[i + 1].lineIndex)
  ELSE Len(result)

\* a splice loop that hands a key's assets to the last heading of that key only
RECURSIVE SpliceLoopLastWins(_, _, _, _)
SpliceLoopLastWins(result, sections, byKey, i) ==
  IF i = 0 THEN result
  ELSE LET key == sections[i].key
       IN  IF key \notin DOMAIN byKey \/ byKey[key] = <<>>
           THEN SpliceLoopLastWins(result, sections, byKey, i - 1)
           ELSE SpliceLoopLastWins(Splice(result, insertAt(result, sections, i),
                                          imageLines(byKey[key])),
                                   sections,
                                   [x \in (DOMAIN byKey) \ {key} |-> byKey[x]],
                                   i - 1)

\* for (let i = sections.length - 1; i >= 0; i--) { ... result.splice(...) }
\* i is 1-based here; SpliceLoop(result, sections, byKey, i) runs iterations i, i-1, ..., 1
RECURSIVE SpliceLoop(_, _, _, _)
SpliceLoop(result, sections, byKey, i) ==
  IF i = 0 THEN result
  ELSE LET key == sections[i].key
       IN  IF key \notin DOMAIN byKey \/ byKey[key] = <<>>
           THEN SpliceLoop(result, sections, byKey, i - 1)
           ELSE SpliceLoop(Splice(result, insertAt(result, sections, i),
                                  imageLines(byKey[key])),
                           sections, byKey, i - 1)

ReferenceTitle == "<reference screenshots>"

\* an appendix without its leading rule
AppendixWithoutRule(unmatched) ==
  IF unmatched = <<>> THEN <<>>
  ELSE << <<"#", "#", " ", ReferenceTitle, "\n">> >> \o imageLines(unmatched)

\* '\n---\n', '## 参考スクリーンショット\n' (the title text is one token), then the image lines
Appendix(unmatched) ==
  IF unmatched = <<>> THEN <<>>
  ELSE << <<"\n", "-", "-", "-", "\n">>, <<"#", "#", " ", ReferenceTitle, "\n">> >>
       \o imageLines(unmatched)

\* an Auto-Linker that does not look for existing image references
ProcessedMarkdownUnguarded(md, shots) ==
  IF Len(shots) = 0 \/ md = <<>>
  THEN md
  ELSE LET lines    == Split(md, "\n")
           sections == Sections(lines)
       IN  IF Len(sections) = 0 THEN md
           ELSE LET g == Grouping(sortedScreenshots(shots), sections)
                IN  Join(SpliceLoop(lines, sections, g.byKey, Len(sections))
                         \o Appendix(g.unmatched), "\n")

\* the useMemo body of processedMarkdown
ProcessedMarkdown(md, shots) ==
  IF mdHasImageRefs(md) \/ Len(shots) = 0 \/ md = <<>>
  THEN md
  ELSE LET lines    == Split(md, "\n")
           sections == Sections(lines)
       IN  IF Len(sections) = 0 THEN md
           ELSE LET g == Grouping(sortedScreenshots(shots), sections)
                IN  Join(SpliceLoop(lines, sections, g.byKey, Len(sections))
                         \o Appendix(g.unmatched), "\n")

(***************************************************************************)
(* Paginator: generatePDF's node collection and page split                 *)
(*                                                                         *)
(* Markup is a sequence of tokens: an opening tag, a closing tag, a void   *)
(* element, or a run of text with its length (whitespace-only or not).     *)
(***************************************************************************)
OpenTag(t) == [kind |-> "open", tag |-> t, len |-> 0, ws |-> FALSE]

CloseTag(t) == [kind |-> "close", tag |-> t, len |-> 0, ws |-> FALSE]

VoidTag(t) == [kind |-> "void", tag |-> t, len |-> 0, ws |-> FALSE]

Text(n) == [kind |-> "text", tag |-> "", len |-> n, ws |-> FALSE]

Blank(n) == [kind |-> "text", tag |-> "", len |-> n, ws |-> TRUE]

\* a DOM child node: an element has tagName and outerHTML, a text node has
\* neither (undefined, here "" and <<>>) and only textContent
Element(tagName, lower, body) ==
  [tagName |-> tagName, outerHTML |-> <<OpenTag(lower)>> \o body \o <<CloseTag(lower)>>,
   textContent |-> body]

VoidElement(tagName, lower) ==
  [tagName |-> tagName, outerHTML |-> <<VoidTag(lower)>>, textContent |-> <<>>]

TextNode(body) == [tagName |-> "", outerHTML |-> <<>>, textContent |-> body]

\* String.prototype.trim on markup: whitespace-only text at either end goes
RECURSIVE TrimMarkupLeft(_)
TrimMarkupLeft(h) ==
  IF h # <<>> /\ h[1].kind = "text" /\ h[1].ws THEN TrimMarkupLeft(Tail(h)) ELSE h

RECURSIVE TrimMarkupRight(_)
TrimMarkupRight(h) ==
  IF h # <<>> /\ Last(h).kind = "text" /\ Last(h).ws THEN TrimMarkupRight(Front(h)) ELSE h

TrimMarkup(h) == TrimMarkupRight(TrimMarkupLeft(h))

\* the collection step for one child node: zero or one entry of nodes
collectNode(el) ==
  IF el.tagName = "HR" THEN <<>>
  ELSE IF el.outerHTML # <<>>
  THEN <<[tag |-> el.tagName, html |-> el.outerHTML, isImage |-> el.tagName = "IMG"]>>
  ELSE IF TrimMarkup(el.textContent) # <<>>
  THEN <<[tag |-> "", html |-> el.textContent, isImage |-> FALSE]>>
  ELSE <<>>

\* Array.from(tempDiv.childNodes).forEach(...): the flat list of nodes
RECURSIVE collectNodes(_)
collectNodes(els) ==
  IF els = <<>> THEN <<>> ELSE collectNodes(Front(els)) \o collectNode(Last(els))

MAX_PAGE_HEIGHT == 880

\* node.html.replace(/<[^>]*>/g, '').length
RECURSIVE textLen(_)
textLen(h) ==
  IF h = <<>> THEN 0
  ELSE (IF h[1].kind = "text" THEN h[1].len ELSE 0) + textLen(Tail(h))

\* (node.html.match(/<li/g) || []).length
RECURSIVE liCount(_)
liCount(h) ==
  IF h = <<>> THEN 0
  ELSE (IF h[1].kind = "open" /\ h[1].tag = "li" THEN 1 ELSE 0) + liCount(Tail(h))

MaxOf(a, b) == IF a >= b THEN a ELSE b

\* Math.ceil(n / d) for non-negative n
CeilDiv(n, d) == (n + d - 1) \div d

estimateHeight(node) ==
  IF node.isImage THEN 400
  ELSE IF node.tag = "H1" THEN 50
  ELSE IF node.tag = "H2" THEN 45
  ELSE IF node.tag = "H3" THEN 35
  ELSE IF node.tag = "P" THEN MaxOf(25, CeilDiv(textLen(node.html), 60) * 20)
  ELSE IF node.tag \in {"UL", "OL"} THEN MaxOf(30, liCount(node.html) * 22)
  ELSE 25

HeadingTags14 == {"h1", "h2", "h3", "h4"}

\* a split that never defers a break for a heading
isOnlyHeadingNever(cur) == FALSE

\* /^<h[1-4][^>]*>[\s\S]*<\/h[1-4]>$/i.test(currentSection.trim()): the markup
\* opens with an h1-h4 tag and ends with an h1-h4 closing tag
isOnlyHeading(cur) ==
  LET t == TrimMarkup(cur)
  IN  /\ t # <<>>
      /\ t[1].kind = "open" /\ t[1].tag \in HeadingTags14
      /\ Last(t).kind = "close" /\ Last(t).tag \in HeadingTags14

\* a split that forgets the page it breaks on overflow
splitNodeLosingPage(st, node) ==
  LET nodeHeight == estimateHeight(node)
  IN  IF node.tag = "H2" /\ TrimMarkup(st.currentSection) # <<>>
      THEN [sections |-> Append(st.sections, st.currentSection),
            currentSection |-> node.html,
            currentHeight |-> nodeHeight,
            flushes |-> st.flushes + 1]
      ELSE LET break == /\ st.currentHeight + nodeHeight > MAX_PAGE_HEIGHT
                        /\ TrimMarkup(st.currentSection) # <<>>
                        /\ ~isOnlyHeading(st.currentSection)
           IN  [sections |-> st.sections,
                currentSection |-> (IF break THEN <<>> ELSE st.currentSection) \o node.html,
                currentHeight |-> (IF break THEN 0 ELSE st.currentHeight) + nodeHeight,
                flushes |-> st.flushes + (IF break THEN 1 ELSE 0)]

\* a split in which an H2 does not start a page
splitNodeH2Inline(st, node) ==
  LET nodeHeight == estimateHeight(node)
      break      == /\ st.currentHeight + nodeHeight > MAX_PAGE_HEIGHT
                    /\ TrimMarkup(st.currentSection) # <<>>
                    /\ ~isOnlyHeading(st.currentSection)
  IN  [sections |-> IF break THEN Append(st.sections, st.currentSection) ELSE st.sections,
       currentSection |-> (IF break THEN <<>> ELSE st.currentSection) \o node.html,
       currentHeight |-> (IF break THEN 0 ELSE st.currentHeight) + nodeHeight,
       flushes |-> st.flushes + (IF break THEN 1 ELSE 0)]

\* a split that places every node on the current page whatever its height
splitNodeNoOverflow(st, node) ==
  LET nodeHeight == estimateHeight(node)
  IN  IF node.tag = "H2" /\ TrimMarkup(st.currentSection) # <<>>
      THEN [sections |-> Append(st.sections, st.currentSection),
            currentSection |-> node.html,
            currentHeight |-> nodeHeight,
            flushes |-> st.flushes + 1]
      ELSE [sections |-> st.sections,
            currentSection |-> st.currentSection \o node.html,
            currentHeight |-> st.currentHeight + nodeHeight,
            flushes |-> st.flushes]

\* the body of nodes.forEach in the height-aware split for a node of the given
\* height; st holds sections, currentSection, currentHeight and the number of
\* pushes so far
splitNodeAt(st, node, nodeHeight) ==
  IF node.tag = "H2" /\ TrimMarkup(st.currentSection) # <<>>
  THEN [sections |-> Append(st.sections, st.currentSection),
        currentSection |-> node.html,
        currentHeight |-> nodeHeight,
        flushes |-> st.flushes + 1]
  ELSE LET break == /\ st.currentHeight + nodeHeight > MAX_PAGE_HEIGHT
                    /\ TrimMarkup(st.currentSection) # <<>>
                    /\ ~isOnlyHeading(st.currentSection)
       IN  [sections |-> IF break THEN Append(st.sections, st.currentSection)
                         ELSE st.sections,
            currentSection |-> (IF break THEN <<>> ELSE st.currentSection) \o node.html,
            currentHeight |-> (IF break THEN 0 ELSE st.currentHeight) + nodeHeight,
            flushes |-> st.flushes + (IF break THEN 1 ELSE 0)]

\* one iteration of nodes.forEach in the height-aware split:
\* const nodeHeight = estimateHeight(node)
splitNode(st, node) == splitNodeAt(st, node, estimateHeight(node))

\* a split at second-level headings that keeps the rules
h2SplitNodeKeepsRule(st, el) ==
  IF el.tagName = "H2"
  THEN [st EXCEPT !.sections = IF TrimMarkup(st.currentSection) # <<>>
                               THEN Append(st.sections, st.currentSection)
                               ELSE st.sections,
                  !.currentSection = el.outerHTML,
                  !.flushes = st.flushes
                              + (IF TrimMarkup(st.currentSection) # <<>> THEN 1 ELSE 0)]
  ELSE IF el.outerHTML # <<>>
  THEN [st EXCEPT !.currentSection = st.currentSection \o el.outerHTML]
  ELSE IF TrimMarkup(el.textContent) # <<>>
  THEN [st EXCEPT !.currentSection = st.currentSection \o el.textContent]
  ELSE st

\* one iteration of childNodes.forEach in the split at second-level headings
h2SplitNode(st, el) ==
  IF el.tagName = "H2"
  THEN [st EXCEPT !.sections = IF TrimMarkup(st.currentSection) # <<>>
                               THEN Append(st.sections, st.currentSection)
                               ELSE st.sections,
                  !.currentSection = el.outerHTML,
                  !.flushes = st.flushes
                              + (IF TrimMarkup(st.currentSection) # <<>> THEN 1 ELSE 0)]
  ELSE IF el.tagName = "HR" THEN st
  ELSE IF el.outerHTML # <<>>
  THEN [st EXCEPT !.currentSection = st.currentSection \o el.outerHTML]
  ELSE IF TrimMarkup(el.textContent) # <<>>
  THEN [st EXCEPT !.currentSection = st.currentSection \o el.textContent]
  ELSE st

\* a final flush that pushes the last page even when it is empty
finalFlushAlways(st) == [st EXCEPT !.sections = Append(st.sections, st.currentSection)]

\* if (currentSection.trim()) sections.push(currentSection)
finalFlush(st) ==
  IF TrimMarkup(st.currentSection) # <<>>
  THEN [st EXCEPT !.sections = Append(st.sections, st.currentSection)]
  ELSE st

(***************************************************************************)
(* Page Composer: generatePDF's sectionHTML                                *)
(***************************************************************************)
\* const logoImg = logo ? `<img src=... class="header-logo" />` : ''
logoImg(lg) == IF lg # null THEN <<VoidTag("img")>> ELSE <<>>

\* `${index + 1} / ${totalPages}` with the index counted from zero upwards
\* and printed as it is
pageNumberZeroBased(index, totalPages) ==
  IntToString(index) \o <<" ", "/", " ">> \o IntToString(totalPages)

\* `${index + 1} / ${totalPages}`, index being the zero-based position
pageNumber(index, totalPages) ==
  IntToString(index + 1) \o <<" ", "/", " ">> \o IntToString(totalPages)

\* sections.map((content, index) => page shell): header, body and footer
composeSectionHTML(secs, lg) ==
  LET totalPages == Len(secs)
  IN  [k \in 1..Len(secs) |->
         [header |-> logoImg(lg),
          body   |-> secs[k],
          footer |-> pageNumber(k - 1, totalPages)]]

\* nodes.forEach(...) followed by the final push: the pages of a node list
RECURSIVE splitNodes(_, _)
splitNodes(st, ns) ==
  IF ns = <<>> THEN st ELSE splitNodes(splitNode(st, ns[1]), Tail(ns))

paginate(els) ==
  finalFlush(splitNodes([sections |-> <<>>, currentSection |-> <<>>,
                         currentHeight |-> 0, flushes |-> 0],
                        collectNodes(els))).sections

\* the number of <img> elements of a piece of markup
imgCount(h) == Cardinality({i \in 1..Len(h) : h[i] = VoidTag("img")})

\* printWindow.document.querySelectorAll('img').length
RECURSIVE totalImgsOf(_)
totalImgsOf(shells) ==
  IF shells = <<>> THEN 0
  ELSE imgCount(shells[1].header) + imgCount(shells[1].body) + totalImgsOf(Tail(shells))

\* a join that releases the print on the first settled image
joinReachedOnFirst(n, totalImgs) == n >= 1

\* if (loaded === totalImgs) triggerPrint()
joinReached(n, totalImgs) == n = totalImgs

(***************************************************************************)
(* Session state and the inputs of the model                               *)
(***************************************************************************)
VARIABLES
  markdownContent,  \* useState<string>(''): the loaded Markdown text
  screenshots,      \* useState<ImageFile[]>([]): the uploaded assets, in upload order
  processedMarkdown \* useMemo(..., [markdownContent, screenshots, mdHasImageRefs])

sessionVars == <<markdownContent, screenshots, processedMarkdown>>

\* one run of generatePDF's pagination
VARIABLES
  policy,          \* which generatePDF runs: "height" (height-aware) or "h2" (split at H2)
  childNodes,      \* Array.from(tempDiv.childNodes): the rendered top-level nodes
  nodes,           \* the collected { tag, html, isImage } entries (height-aware policy)
  idx,             \* the number of entries the forEach has visited
  sections,        \* the pages pushed so far
  currentSection,  \* the markup of the page being filled
  currentHeight,   \* the estimated height of the page being filled
  flushes,         \* the number of sections.push calls made inside the loop
  pc               \* "idle", "collect", "split", "done"

pageVars ==
  <<policy, childNodes, nodes, idx, sections, currentSection, currentHeight, flushes, pc>>

\* the image uploads in flight
VARIABLES
  uploads,         \* one record per handleScreenshotsUpload call: the files picked,
                   \* the indices whose reader.onload has fired, the indices
                   \* whose read ended in an error, and whether
                   \* Promise.all(...).then has run
  mdReads          \* one record per handleMdUpload call: the file picked and
                   \* whether its reader.onload has fired

uploadVars == <<uploads, mdReads>>

\* the export (generatePDF) and what it leaves on the print window
VARIABLES
  mdFile,          \* useState<File | null>(null)
  logo,            \* useState<ImageFile | null>(null)
  isGenerating,    \* useState(false)
  step,            \* where generatePDF stands: "idle", "delay", "awaiting", "timer"
  sectionHTML,     \* the page shells written to printWindow.document
  imgs,            \* printWindow.document.querySelectorAll('img'), each image's state
  loaded,          \* let loaded = 0
  clicks,          \* the number of generatePDF calls
  opens,           \* the number of window.open calls
  alerts,          \* the number of alert(...) calls
  writes,          \* the number of printWindow.document.write calls
  prints,          \* the number of printWindow.print() calls
  printResult,     \* how the last print dialog ended: "printed", "cancelled" or null
  requested        \* the render whose generatePDF is running: the logo its closure
                   \* holds and the preview nodes that render showed

exportVars ==
  <<mdFile, logo, isGenerating, step, sectionHTML, imgs, loaded,
    clicks, opens, alerts, writes, prints, printResult, requested>>

\* no generatePDF call was made yet
NoRequest == [logo |-> null, childNodes |-> <<>>]

vars == <<sessionVars, pageVars, uploadVars, exportVars>>

\* no upload is in flight
UploadIdle == uploads = <<>> /\ mdReads = <<>>

\* no export was ever requested
ExportIdle ==
  /\ mdFile = null
  /\ logo = null
  /\ isGenerating = FALSE
  /\ step = "idle"
  /\ sectionHTML = <<>>
  /\ imgs = <<>>
  /\ loaded = 0
  /\ clicks = 0
  /\ opens = 0
  /\ alerts = 0
  /\ writes = 0
  /\ prints = 0
  /\ printResult = null
  /\ requested = NoRequest

\* no export is running
PaginatorIdle ==
  /\ policy = "height"
  /\ childNodes = <<>>
  /\ nodes = <<>>
  /\ idx = 0
  /\ sections = <<>>
  /\ currentSection = <<>>
  /\ currentHeight = 0
  /\ flushes = 0
  /\ pc = "idle"

\* the Markdown lines the model uploads
LinePool ==
  { <<"#", "#", " ", "1", ".", " ", "a">>,        \* ## 1. a
    <<"#", "#", " ", "2", ".", " ", "a">>,        \* ## 2. a
    <<"#", "#", "#", " ", "1", "-", "1", " ", "a">>,  \* ### 1-1 a
    <<"a">>,                                          \* a paragraph
    <<"-", "-", "-">>,                                \* a rule
    <<"!", "[", "a", "]", "(", "a", ")">> }           \* an image reference

RECURSIVE SeqsUpTo(_, _)
SeqsUpTo(S, n) ==
  IF n = 0 THEN {<<>>}
  ELSE LET shorter == SeqsUpTo(S, n - 1)
       IN  shorter \cup {Append(q, x) : q \in {r \in shorter : Len(r) = n - 1}, x \in S}

MarkdownFiles == {Join(ls, "\n") : ls \in SeqsUpTo(LinePool, MaxLines)}

\* the image files the model uploads: name and decoded content
ImagePool ==
  { [name |-> <<"0", "1", "_", "a">>, dataUrl |-> "d1"],
    [name |-> <<"1", "-", "1", "_", "a">>, dataUrl |-> "d3"],
    [name |-> <<"a", "_", "1">>, dataUrl |-> "d5"] }

\* the Markdown text is an input of the render: any file's text, set by
\* reader.onload of handleMdUpload (setMarkdownContent(event.target.result))
Init ==
  /\ markdownContent \in MarkdownFiles
  /\ screenshots = <<>>
  /\ processedMarkdown = ProcessedMarkdown(markdownContent, screenshots)
  /\ PaginatorIdle
  /\ UploadIdle
  /\ ExportIdle

\* Promise.all(...).then of handleScreenshotsUpload:
\* setScreenshots(prev => [...prev, ...loadedImages])
ScreenshotsLoaded ==
  \E loadedImages \in SeqsUpTo(ImagePool, MaxShots - Len(screenshots)) :
    /\ screenshots' = screenshots \o loadedImages
    /\ UNCHANGED markdownContent
    /\ processedMarkdown' = ProcessedMarkdown(markdownContent', screenshots')
    /\ UNCHANGED <<pageVars, uploadVars, exportVars>>

Next == ScreenshotsLoaded

Spec == Init /\ [][Next]_vars

\* manuals of one numbered section, its heading written with or without
\* leading zeros, with paragraphs and rules in its body, closed by the next
\* numbered heading or by the end of the text
SectionHeads ==
  { <<"#", "#", " ", "1", ".", " ", "a">>,                      \* ## 1. a
    <<"#", "#", " ", "0", "1", ".", " ", "a">>,                 \* ## 01. a
    <<"#", "#", "#", " ", "1", ".", "1", " ", "a">>,            \* ### 1.1 a
    <<"#", "#", "#", " ", "0", "1", "-", "0", "1", " ", "a">> } \* ### 01-01 a

SectionBodyPool == { <<"a">>, <<"-", "-", "-">> }

SectionTails == { <<>>, << <<"#", "#", " ", "2", ".", " ", "a">> >> }

SectionFiles ==
  {Join(<<h>> \o body \o tail, "\n") :
     h \in SectionHeads, body \in SeqsUpTo(SectionBodyPool, MaxLines), tail \in SectionTails}

InitSections ==
  /\ markdownContent \in SectionFiles
  /\ screenshots = <<>>
  /\ processedMarkdown = ProcessedMarkdown(markdownContent, screenshots)
  /\ PaginatorIdle
  /\ UploadIdle
  /\ ExportIdle

SpecSections == InitSections /\ [][Next]_vars

(***************************************************************************)
(* The pagination of one export, step by step                              *)
(***************************************************************************)
\* the logo of the session: none, or the file handleLogoUpload has read
LogoChoices == {null, "logo"}

\* the rendered top-level nodes the model paginates
NodePool ==
  { Element("H1", "h1", <<Text(5)>>),
    Element("H2", "h2", <<Text(5)>>),
    Element("H5", "h5", <<Text(5)>>),
    Element("P", "p", <<Text(10)>>),
    Element("P", "p", <<Text(2700)>>),
    VoidElement("IMG", "img"),
    VoidElement("HR", "hr"),
    TextNode(<<Blank(1)>>) }

\* a paragraph followed by first-level headings whose estimated heights alone
\* exceed the page budget
HeadingRun ==
  <<Element("P", "p", <<Text(10)>>)>>
    \o [i \in 1..((MAX_PAGE_HEIGHT \div 50) + 1) |-> Element("H1", "h1", <<Text(5)>>)]

InitPaginator ==
  /\ markdownContent = <<>>
  /\ screenshots = <<>>
  /\ processedMarkdown = <<>>
  /\ policy \in {"height", "h2"}
  /\ childNodes \in SeqsUpTo(NodePool, MaxNodes) \cup {HeadingRun}
  /\ nodes = <<>>
  /\ idx = 0
  /\ sections = <<>>
  /\ currentSection = <<>>
  /\ currentHeight = 0
  /\ flushes = 0
  /\ pc = IF policy = "height" THEN "collect" ELSE "split"
  /\ UploadIdle
  /\ mdFile = null
  /\ logo \in LogoChoices
  /\ isGenerating = FALSE
  /\ step = "idle"
  /\ sectionHTML = <<>>
  /\ imgs = <<>>
  /\ loaded = 0
  /\ clicks = 0
  /\ opens = 0
  /\ alerts = 0
  /\ writes = 0
  /\ prints = 0
  /\ printResult = null
  /\ requested = NoRequest

SplitState ==
  [sections |-> sections, currentSection |-> currentSection,
   currentHeight |-> currentHeight, flushes |-> flushes]

SetSplitState(st) ==
  /\ sections' = st.sections
  /\ currentSection' = st.currentSection
  /\ currentHeight' = st.currentHeight
  /\ flushes' = st.flushes

\* the node collection of the height-aware policy
CollectNodes ==
  /\ pc = "collect"
  /\ nodes' = collectNodes(childNodes)
  /\ pc' = "split"
  /\ UNCHANGED <<sessionVars, policy, childNodes, idx, sections, currentSection,
                 currentHeight, flushes, uploadVars, exportVars>>

\* the next iteration of nodes.forEach (height-aware policy)
SplitStep ==
  /\ pc = "split"
  /\ policy = "height"
  /\ idx < Len(nodes)
  /\ SetSplitState(splitNode(SplitState, nodes[idx + 1]))
  /\ idx' = idx + 1
  /\ UNCHANGED <<sessionVars, policy, childNodes, nodes, pc, uploadVars, exportVars>>

\* the next iteration of childNodes.forEach (split at second-level headings)
H2SplitStep ==
  /\ pc = "split"
  /\ policy = "h2"
  /\ idx < Len(childNodes)
  /\ SetSplitState(h2SplitNode(SplitState, childNodes[idx + 1]))
  /\ idx' = idx + 1
  /\ UNCHANGED <<sessionVars, policy, childNodes, nodes, pc, uploadVars, exportVars>>

\* the push of the last page after the loop
FinalFlush ==
  /\ pc = "split"
  /\ idx = Len(IF policy = "height" THEN nodes ELSE childNodes)
  /\ SetSplitState(finalFlush(SplitState))
  /\ pc' = "done"
  /\ UNCHANGED <<sessionVars, policy, childNodes, nodes, idx, uploadVars, exportVars>>

\* const sectionHTML = sections.map(...): one page shell per page
ComposeSectionHTML ==
  /\ pc = "done"
  /\ sectionHTML' = composeSectionHTML(sections, logo)
  /\ pc' = "composed"
  /\ UNCHANGED <<sessionVars, policy, childNodes, nodes, idx, sections, currentSection,
                 currentHeight, flushes, uploadVars, mdFile, logo, isGenerating, step,
                 imgs, loaded, clicks, opens, alerts, writes, prints, printResult, requested>>

NextPaginator ==
  CollectNodes \/ SplitStep \/ H2SplitStep \/ FinalFlush \/ ComposeSectionHTML

SpecPaginator == InitPaginator /\ [][NextPaginator]_vars

(***************************************************************************)
(* The export: generatePDF from the click to the print dialog              *)
(***************************************************************************)
\* the rendered nodes of the previews the model exports
ExportNodePool ==
  { Element("H2", "h2", <<Text(5)>>),
    Element("P", "p", <<Text(10)>>),
    Element("P", "p", <<VoidTag("img")>>) }

InitExport ==
  /\ mdFile \in {null, "manual.md"}
  /\ markdownContent \in (IF mdFile = null THEN {<<>>} ELSE {<<>>, <<"a">>})
  /\ screenshots = <<>>
  /\ processedMarkdown = ProcessedMarkdown(markdownContent, screenshots)
  /\ policy = "height"
  /\ childNodes \in (IF markdownContent = <<>> THEN {<<>>}
                     ELSE SeqsUpTo(ExportNodePool, MaxExportNodes))
  /\ nodes = <<>>
  /\ idx = 0
  /\ sections = <<>>
  /\ currentSection = <<>>
  /\ currentHeight = 0
  /\ flushes = 0
  /\ pc = "idle"
  /\ UploadIdle
  /\ logo \in LogoChoices
  /\ isGenerating = FALSE
  /\ step = "idle"
  /\ sectionHTML = <<>>
  /\ imgs = <<>>
  /\ loaded = 0
  /\ clicks = 0
  /\ opens = 0
  /\ alerts = 0
  /\ writes = 0
  /\ prints = 0
  /\ printResult = null
  /\ requested = NoRequest

\* the preview element exists only while markdownContent is not empty
previewEl == IF markdownContent # <<>> THEN "preview-content" ELSE null

\* const isValid = mdFile !== null
isValid == mdFile # null

\* the stricter variant: const isValid = mdFile !== null && screenshots.length > 0
isValidStrict == mdFile # null /\ Len(screenshots) > 0

\* the export button: disabled={!isValid || isGenerating}
disabled == ~isValid \/ isGenerating

\* the export button of the stricter variant
disabledStrict == ~isValidStrict \/ isGenerating

\* a generatePDF that does not raise the generating flag
GeneratePDFWithoutFlag ==
  /\ ~disabled
  /\ clicks < MaxExports
  /\ step' = "delay"
  /\ clicks' = clicks + 1
  /\ requested' = [logo |-> logo, childNodes |-> childNodes]
  /\ UNCHANGED <<sessionVars, pageVars, uploadVars, mdFile, logo, isGenerating,
                 sectionHTML, imgs, loaded, opens, alerts, writes, prints, printResult>>

\* a click on the button (disabled={!isValid || isGenerating}): generatePDF up
\* to its await; the call keeps the logo of the render it was made in
GeneratePDF ==
  /\ ~disabled
  /\ clicks < MaxExports
  /\ isGenerating' = TRUE
  /\ step' = "delay"
  /\ clicks' = clicks + 1
  /\ requested' = [logo |-> logo, childNodes |-> childNodes]
  /\ UNCHANGED <<sessionVars, pageVars, uploadVars, mdFile, logo, sectionHTML, imgs,
                 loaded, opens, alerts, writes, prints, printResult>>

\* after the delay: if (!previewEl) { setIsGenerating(false); return; }
PreviewMissing ==
  /\ step = "delay"
  /\ previewEl = null
  /\ isGenerating' = FALSE
  /\ step' = "idle"
  /\ UNCHANGED <<sessionVars, pageVars, uploadVars, mdFile, logo, sectionHTML, imgs,
                 loaded, clicks, opens, alerts, writes, prints, printResult, requested>>

\* a blocked popup that leaves the generating flag set
PopupBlockedStaysGenerating ==
  /\ step = "delay"
  /\ previewEl # null
  /\ opens' = opens + 1
  /\ alerts' = alerts + 1
  /\ step' = "idle"
  /\ UNCHANGED <<sessionVars, pageVars, uploadVars, mdFile, logo, isGenerating,
                 sectionHTML, imgs, loaded, clicks, writes, prints, printResult, requested>>

\* after the delay, window.open returns null:
\* if (!printWindow) { alert(...); setIsGenerating(false); return; }
PopupBlocked ==
  /\ step = "delay"
  /\ previewEl # null
  /\ opens' = opens + 1
  /\ alerts' = alerts + 1
  /\ isGenerating' = FALSE
  /\ step' = "idle"
  /\ UNCHANGED <<sessionVars, pageVars, uploadVars, mdFile, logo, sectionHTML, imgs,
                 loaded, clicks, writes, prints, printResult, requested>>

\* after the delay, window.open succeeds: the preview is read as it is now, the
\* pages are split, composed with the logo the call holds and written, the images
\* are counted, the complete ones are counted as loaded and the others get their
\* onload and onerror handlers
DocumentWritten ==
  /\ step = "delay"
  /\ previewEl # null
  /\ opens' = opens + 1
  /\ writes' = writes + 1
  /\ sections' = paginate(childNodes)
  /\ sectionHTML' = composeSectionHTML(sections', requested.logo)
  /\ LET totalImgs == totalImgsOf(sectionHTML')
     IN  \E complete \in SUBSET (1..totalImgs) :
           /\ imgs' = [i \in 1..totalImgs |->
                         IF i \in complete THEN "complete" ELSE "pending"]
           /\ loaded' = Cardinality(complete)
           /\ step' = IF totalImgs = 0 \/ joinReached(loaded', totalImgs)
                      THEN "timer" ELSE "awaiting"
  /\ UNCHANGED <<sessionVars, policy, childNodes, nodes, idx, currentSection,
                 currentHeight, flushes, pc, uploadVars, mdFile, logo, isGenerating,
                 clicks, alerts, prints, printResult, requested>>

\* a load handler that counts its image twice
ImgOnloadCountsTwice ==
  \E i \in 1..Len(imgs) :
    /\ imgs[i] = "pending"
    /\ imgs' = [imgs EXCEPT ![i] = "loaded"]
    /\ loaded' = loaded + 2
    /\ step' = IF joinReached(loaded', Len(imgs)) THEN "timer" ELSE step
    /\ UNCHANGED <<sessionVars, pageVars, uploadVars, mdFile, logo, isGenerating,
                   sectionHTML, clicks, opens, alerts, writes, prints, printResult, requested>>

\* img.onload = () => { loaded++; if (loaded === totalImgs) triggerPrint(); }
ImgOnload ==
  \E i \in 1..Len(imgs) :
    /\ imgs[i] = "pending"
    /\ imgs' = [imgs EXCEPT ![i] = "loaded"]
    /\ loaded' = loaded + 1
    /\ step' = IF joinReached(loaded', Len(imgs)) THEN "timer" ELSE step
    /\ UNCHANGED <<sessionVars, pageVars, uploadVars, mdFile, logo, isGenerating,
                   sectionHTML, clicks, opens, alerts, writes, prints, printResult, requested>>

\* an error handler that does not count the image
ImgOnerrorUncounted ==
  \E i \in 1..Len(imgs) :
    /\ imgs[i] = "pending"
    /\ imgs' = [imgs EXCEPT ![i] = "errored"]
    /\ UNCHANGED <<sessionVars, pageVars, uploadVars, mdFile, logo, isGenerating, step,
                   sectionHTML, loaded, clicks, opens, alerts, writes, prints,
                   printResult, requested>>

\* img.onerror = () => { loaded++; if (loaded === totalImgs) triggerPrint(); }
ImgOnerror ==
  \E i \in 1..Len(imgs) :
    /\ imgs[i] = "pending"
    /\ imgs' = [imgs EXCEPT ![i] = "errored"]
    /\ loaded' = loaded + 1
    /\ step' = IF joinReached(loaded', Len(imgs)) THEN "timer" ELSE step
    /\ UNCHANGED <<sessionVars, pageVars, uploadVars, mdFile, logo, isGenerating,
                   sectionHTML, clicks, opens, alerts, writes, prints, printResult, requested>>

\* the timer of triggerPrint fires: printWindow.print(); setIsGenerating(false).
\* print() returns when the dialog is closed, printed or cancelled
PrintTimer ==
  /\ step = "timer"
  /\ prints' = prints + 1
  /\ printResult' \in {"printed", "cancelled"}
  /\ isGenerating' = FALSE
  /\ step' = "idle"
  /\ UNCHANGED <<sessionVars, pageVars, uploadVars, mdFile, logo, sectionHTML, imgs,
                 loaded, clicks, opens, alerts, writes, requested>>

NextExport ==
  \/ GeneratePDF
  \/ PreviewMissing
  \/ PopupBlocked
  \/ DocumentWritten
  \/ ImgOnload
  \/ ImgOnerror
  \/ PrintTimer

SpecExport == InitExport /\ [][NextExport]_vars

\* the timers fire and every pending image fires load or error
SpecExportFair ==
  /\ SpecExport
  /\ WF_vars(PreviewMissing \/ PopupBlocked \/ DocumentWritten)
  /\ WF_vars(ImgOnload \/ ImgOnerror)
  /\ WF_vars(PrintTimer)

(***************************************************************************)
(* Image uploads: handleScreenshotsUpload, its readers and its Promise.all *)
(***************************************************************************)
\* the files the user picks: two files of the same name with different bytes
\* and a file of another name
FileA1 == [name |-> <<"a">>, dataUrl |-> "d1"]

FileA2 == [name |-> <<"a">>, dataUrl |-> "d2"]

FileB == [name |-> <<"b">>, dataUrl |-> "d3"]

\* the selections of the file input (e.target.files)
UploadBatches == {<<FileA1>>, <<FileA2, FileB>>, <<FileA1, FileA2>>}

InitUpload ==
  /\ markdownContent = <<>>
  /\ screenshots = <<>>
  /\ processedMarkdown = ProcessedMarkdown(markdownContent, screenshots)
  /\ PaginatorIdle
  /\ UploadIdle
  /\ ExportIdle

\* resolve({ name: file.name, dataUrl: event.target.result, file }) for every
\* file of the b-th upload, in the order of the selection
loadedImagesOf(b, files) ==
  [i \in 1..Len(files) |->
     [name |-> files[i].name, dataUrl |-> files[i].dataUrl, file |-> <<b, i>>]]

\* an update that replaces the collection by the batch
setScreenshotsReplacing(prev, loadedImages) == loadedImages

\* setScreenshots((prev) => [...prev, ...loadedImages])
setScreenshots(prev, loadedImages) == prev \o loadedImages

\* handleScreenshotsUpload: one reader per file, Promise.all over them
HandleScreenshotsUpload ==
  /\ Len(uploads) < MaxBatches
  /\ \E files \in UploadBatches :
       uploads' = Append(uploads, [files |-> files, decoded |-> {}, failed |-> {},
                                   published |-> FALSE])
  /\ UNCHANGED <<sessionVars, pageVars, mdReads, exportVars>>

\* a reader that publishes its file as soon as it is decoded
ReaderOnloadPublishesEach ==
  \E b \in 1..Len(uploads) :
    \E i \in (1..Len(uploads[b].files)) \ (uploads[b].decoded \cup uploads[b].failed) :
      LET decoded == uploads[b].decoded \cup {i}
      IN  /\ uploads' = [uploads EXCEPT ![b].decoded = decoded,
                                        ![b].published = (decoded = 1..Len(uploads[b].files))]
          /\ screenshots' =
               setScreenshots(screenshots, <<loadedImagesOf(b, uploads[b].files)[i]>>)
          /\ UNCHANGED markdownContent
          /\ processedMarkdown' = ProcessedMarkdown(markdownContent', screenshots')
          /\ UNCHANGED <<pageVars, mdReads, exportVars>>

\* reader.onload of one file: its promise resolves; when it was the last one of
\* its upload, Promise.all(...).then runs and publishes the whole batch
ReaderOnload ==
  \E b \in 1..Len(uploads) :
    \E i \in (1..Len(uploads[b].files)) \ (uploads[b].decoded \cup uploads[b].failed) :
      LET decoded == uploads[b].decoded \cup {i}
          all     == decoded = 1..Len(uploads[b].files)
      IN  /\ uploads' = [uploads EXCEPT ![b].decoded = decoded, ![b].published = all]
          /\ screenshots' =
               IF all
               THEN setScreenshots(screenshots, loadedImagesOf(b, uploads[b].files))
               ELSE screenshots
          /\ UNCHANGED markdownContent
          /\ processedMarkdown' = ProcessedMarkdown(markdownContent', screenshots')
          /\ UNCHANGED <<pageVars, mdReads, exportVars>>

\* the read of one file ends in an error: the reader has no onerror handler,
\* so the file's promise is neither resolved nor rejected
ReaderOnerror ==
  \E b \in 1..Len(uploads) :
    \E i \in (1..Len(uploads[b].files)) \ (uploads[b].decoded \cup uploads[b].failed) :
      /\ uploads' = [uploads EXCEPT ![b].failed = uploads[b].failed \cup {i}]
      /\ UNCHANGED <<sessionVars, pageVars, mdReads, exportVars>>

\* removeImage: setImages((prev) => prev.filter((_, i) => i !== index))
RemoveImage ==
  \E index \in 1..Len(screenshots) :
    /\ screenshots' = SubSeq(screenshots, 1, index - 1)
                        \o SubSeq(screenshots, index + 1, Len(screenshots))
    /\ UNCHANGED markdownContent
    /\ processedMarkdown' = ProcessedMarkdown(markdownContent', screenshots')
    /\ UNCHANGED <<pageVars, uploadVars, exportVars>>

NextUpload == HandleScreenshotsUpload \/ ReaderOnload \/ ReaderOnerror

\* the variant without removal of single images
SpecUpload == InitUpload /\ [][NextUpload]_vars

NextAssets == HandleScreenshotsUpload \/ ReaderOnload \/ ReaderOnerror \/ RemoveImage

\* the variant in which the user can remove single images
SpecAssets == InitUpload /\ [][NextAssets]_vars

\* every read that was started ends, with its text or with an error
SpecUploadFair == SpecUpload /\ WF_vars(ReaderOnload \/ ReaderOnerror)

(***************************************************************************)
(* The session: Markdown and logo uploads around an export                 *)
(***************************************************************************)
\* the Markdown files the user picks: name and text
MdFilePool ==
  { [name |-> "manual.md", text |-> <<"a">>],
    [name |-> "other.md", text |-> <<"#", "#", " ", "b">>] }

\* file.text(): the text readAsText delivers for the file of that name
MdText(name) == (CHOOSE f \in MdFilePool : f.name = name).text

\* the top-level nodes the preview shows for a text of MdFilePool:
\* <p>a</p> for a paragraph, <h2>b</h2> for a second-level heading
previewNodes(md) ==
  IF md = <<>> THEN <<>>
  ELSE IF h2Match(md).matched THEN <<Element("H2", "h2", <<Text(Len(md) - 3)>>)>>
  ELSE <<Element("P", "p", <<Text(Len(md))>>)>>

InitSession ==
  /\ markdownContent = <<>>
  /\ screenshots = <<>>
  /\ processedMarkdown = ProcessedMarkdown(markdownContent, screenshots)
  /\ PaginatorIdle
  /\ UploadIdle
  /\ ExportIdle

\* handleMdUpload: setMdFile(file) at once, the text when its reader is done
HandleMdUpload ==
  /\ Len(mdReads) < MaxSelections
  /\ \E f \in MdFilePool :
       /\ mdFile' = f.name
       /\ mdReads' = Append(mdReads, [file |-> f.name, done |-> FALSE])
  /\ UNCHANGED <<sessionVars, pageVars, uploads, logo, isGenerating, step, sectionHTML,
                 imgs, loaded, clicks, opens, alerts, writes, prints, printResult,
                 requested>>

\* reader.onload of handleMdUpload: setMarkdownContent(event.target.result),
\* after which the preview shows the new text
MdReaderOnload ==
  \E r \in 1..Len(mdReads) :
    /\ ~mdReads[r].done
    /\ mdReads' = [mdReads EXCEPT ![r].done = TRUE]
    /\ markdownContent' = MdText(mdReads[r].file)
    /\ UNCHANGED screenshots
    /\ processedMarkdown' = ProcessedMarkdown(markdownContent', screenshots')
    /\ childNodes' = previewNodes(processedMarkdown')
    /\ UNCHANGED <<policy, nodes, idx, sections, currentSection, currentHeight, flushes,
                   pc, uploads, exportVars>>

\* reader.onload of handleLogoUpload: setLogo({ name, dataUrl, file })
LogoReaderOnload ==
  /\ logo = null
  /\ logo' = "logo"
  /\ UNCHANGED <<sessionVars, pageVars, uploadVars, mdFile, isGenerating, step,
                 sectionHTML, imgs, loaded, clicks, opens, alerts, writes, prints,
                 printResult, requested>>

NextSession ==
  \/ HandleMdUpload
  \/ MdReaderOnload
  \/ LogoReaderOnload
  \/ GeneratePDF
  \/ PreviewMissing
  \/ PopupBlocked
  \/ DocumentWritten
  \/ ImgOnload
  \/ ImgOnerror
  \/ PrintTimer

SpecSession == InitSession /\ [][NextSession]_vars

(***************************************************************************)
(* Vocabulary of the properties                                            *)
(***************************************************************************)
Max(S) == CHOOSE x \in S : \A y \in S : y <= x

\* the part of a reference after its last '/', the whole reference without one
AfterLastSlash(r) ==
  LET slashes == {i \in 1..Len(r) : r[i] = "/"}
  IN  IF slashes = {} THEN r ELSE SubSeq(r, Max(slashes) + 1, Len(r))

\* the references the properties resolve
RefPool ==
  { <<"0", "1", "_", "a">>,
    <<"x", "/", "0", "1", "_", "a">>,
    <<"x", "/", "y", "/", "1", "-", "1", "_", "a">>,
    <<"2", "_", "a", "/", "a", "_", "1">>,
    <<"a", "_", "1", "/", "x">>,
    <<"/", "2", "_", "a">>,
    <<"2", "_", "a", "/">>,
    <<"x">>,
    <<>> }

NamesHeld == {screenshots[i].name : i \in 1..Len(screenshots)}

ContentsOf(name) ==
  {screenshots[i].dataUrl : i \in {j \in 1..Len(screenshots) : screenshots[j].name = name}}

\* the image reference line of a file name
ImgRef(name) == <<"!", "[">> \o name \o <<"]", "(">> \o name \o <<")">>

IsImgRefLine(l) == \E n \in NamesHeld : l = ImgRef(n)

Occurrences(seq, x) == Cardinality({i \in 1..Len(seq) : seq[i] = x})

\* the number of uploaded assets that carry a name
NameCount(name) == Cardinality({i \in 1..Len(screenshots) : screenshots[i].name = name})

ReferenceHeading == <<"#", "#", " ", ReferenceTitle>>

\* the 1-based position of the synthesized appendix heading in the output
\* (past the end when there is none)
AppendixPosIn(out) ==
  IF \E p \in 1..Len(out) : out[p] = ReferenceHeading
  THEN CHOOSE p \in 1..Len(out) : out[p] = ReferenceHeading
  ELSE Len(out) + 1

\* what a render works on and yields: the input lines and their recorded
\* headings, the grouping of the assets, the output lines, their recorded
\* headings and the appendix position
Render ==
  LET ls   == Split(markdownContent, "\n")
      secs == Sections(ls)
      g    == Grouping(sortedScreenshots(screenshots), secs)
      out  == Split(processedMarkdown, "\n")
  IN  [lines |-> ls, sections |-> secs,
       byKey |-> g.byKey, unmatched |-> g.unmatched,
       bucket |-> [a \in 1..Len(screenshots) |-> BucketOf(screenshots[a], secs)],
       output |-> out, outSections |-> Sections(out), appendixPos |-> AppendixPosIn(out)]

\* 1-based positions in the output of the i-th recorded heading and of the end
\* of its section (the next recorded heading, the appendix or the end)
SecStart(v, i) == v.outSections[i].lineIndex + 1

SecEnd(v, i) ==
  IF i < Len(v.outSections) THEN v.outSections[i + 1].lineIndex + 1
  ELSE IF v.appendixPos <= Len(v.output) THEN v.appendixPos - 2
  ELSE Len(v.output) + 1

RefsIn(v, i, name) ==
  {p \in (SecStart(v, i) + 1)..(SecEnd(v, i) - 1) : v.output[p] = ImgRef(name)}

Linking == ~mdHasImageRefs(markdownContent) /\ Len(screenshots) > 0

MatchedAssets(v) == {a \in 1..Len(screenshots) : v.bucket[a] # nullStr}

UnmatchedAssets(v) == {a \in 1..Len(screenshots) : v.bucket[a] = nullStr}

(***************************************************************************)
(* Properties of the Reference Resolver and the Auto-Linker                *)
(***************************************************************************)
\* C1: resolving a reference looks up exactly the part after its last '/' in
\* the Asset Index: the content stored under that name when an asset has it,
\* null otherwise; the result is never the content of an asset with another
\* name, and a directory prefix changes nothing.
C1_ResolveByBasename ==
  \A r \in RefPool :
    LET base == AfterLastSlash(r)
        res  == resolveImageSrc(screenshots, r)
    IN  /\ (base \in NamesHeld) => (res # null /\ res \in ContentsOf(base))
        /\ (base \notin NamesHeld) => (res = null)
        /\ resolveImageSrc(screenshots, <<"x", "/">> \o r) = res
        /\ (res # null) =>
             \A i \in 1..Len(screenshots) :
               screenshots[i].name # base => screenshots[i].dataUrl # res

\* a prefixed reference resolves to an asset while another asset is held too
C1_Witness ==
  /\ resolveImageSrc(screenshots, <<"x", "/", "y", "/", "1", "-", "1", "_", "a">>) = "d3"
  /\ resolveImageSrc(screenshots, <<"2", "_", "a", "/", "a", "_", "1">>) = "d5"
  /\ resolveImageSrc(screenshots, <<"x">>) = null

C2_StatedIn(v) ==
  \A a \in MatchedAssets(v) :
    LET name == screenshots[a].name
    IN  /\ Occurrences(v.output, ImgRef(name)) = NameCount(name)
        /\ \A p \in 1..Len(v.output) :
             v.output[p] = ImgRef(name) =>
               \E i \in 1..Len(v.outSections) :
                 v.outSections[i].key = v.bucket[a] /\ p \in RefsIn(v, i, name)

\* C2 as stated: with no image syntax in the Markdown, each asset whose key
\* matches a recorded heading key appears as exactly one image reference line,
\* inside the section of a heading with that key (after the heading's line,
\* before the next recorded heading's line or the end).
C2_OneReferencePerMatchedAsset == Linking => C2_StatedIn(Render)

C2_AmendedIn(v) ==
  /\ Len(v.outSections) = Len(v.sections)
  /\ \A a \in MatchedAssets(v) :
       LET name  == screenshots[a].name
           homes == {i \in 1..Len(v.outSections) : v.outSections[i].key = v.bucket[a]}
       IN  /\ homes # {}
           /\ \A i \in homes : Cardinality(RefsIn(v, i, name)) = NameCount(name)
           /\ Occurrences(v.output, ImgRef(name)) = NameCount(name) * Cardinality(homes)
           /\ \A i \in homes : \A p \in RefsIn(v, i, name) :
                \A q \in (p + 1)..(SecEnd(v, i) - 1) :
                  \/ v.output[q] = <<>>
                  \/ IsImgRefLine(v.output[q])
                  \/ \E t \in (p + 1)..q : Trim(v.output[t]) = SeparatorLine

\* C2 as amended: each such asset appears as exactly one image reference line
\* in the section of every recorded heading that carries its key and nowhere
\* else; in that section nothing but blank lines and image lines separates it
\* from the section's last rule, or from the section's end when it has no rule.
C2_OneReferencePerMatchedHeading == Linking => C2_AmendedIn(Render)

C2_WitnessIn(v) ==
  \E a \in MatchedAssets(v) : \E i \in 1..Len(v.outSections) :
    /\ i < Len(v.outSections)
    /\ RefsIn(v, i, screenshots[a].name) # {}
    /\ \E q \in (SecStart(v, i) + 1)..(SecEnd(v, i) - 1) : v.output[q] = <<"a">>

\* a matched asset is linked into a section that has text, with a later heading
C2_Witness == Linking /\ C2_WitnessIn(Render)

\* C3: the Auto-Linker is the identity whenever the Markdown already holds an
\* image reference and whenever no asset is uploaded (so it changes the text
\* only with zero image references and at least one asset).
C3_IdentityUnlessLinking ==
  (mdHasImageRefs(markdownContent) \/ Len(screenshots) = 0) =>
    processedMarkdown = markdownContent

\* an image reference in the Markdown, together with an asset whose key matches
\* a recorded heading
C3_Witness ==
  /\ mdHasImageRefs(markdownContent)
  /\ MatchedAssets(Render) # {}
  /\ processedMarkdown = markdownContent

\* the appendix: a rule, the synthesized heading, then only blank lines and the
\* reference lines of the unmatched assets, one per asset; nothing of it earlier
AppendixHoldsUnmatched(v) ==
  /\ v.appendixPos <= Len(v.output)
  /\ v.appendixPos > 2
  /\ v.output[v.appendixPos - 2] = SeparatorLine
  /\ \A i \in 1..Len(v.outSections) : SecStart(v, i) < v.appendixPos - 2
  /\ \A a \in MatchedAssets(v) : \A p \in 1..Len(v.output) :
       v.output[p] = ImgRef(screenshots[a].name) => p < v.appendixPos - 2
  /\ \A a \in UnmatchedAssets(v) :
       /\ Occurrences(v.output, ImgRef(screenshots[a].name)) = NameCount(screenshots[a].name)
       /\ \A p \in 1..Len(v.output) :
            v.output[p] = ImgRef(screenshots[a].name) => p > v.appendixPos
  /\ \A q \in (v.appendixPos + 1)..Len(v.output) :
       \/ v.output[q] = <<>>
       \/ \E a \in UnmatchedAssets(v) : v.output[q] = ImgRef(screenshots[a].name)

C4_StatedIn(v) == UnmatchedAssets(v) # {} => AppendixHoldsUnmatched(v)

\* C4 as stated: with no image syntax and at least one asset, every asset that
\* matches no recorded heading key gets exactly one reference, in the appendix
\* at the end of the document.
C4_UnmatchedAppended == Linking => C4_StatedIn(Render)

C4_AmendedIn(v) ==
  (UnmatchedAssets(v) # {} /\ Len(v.sections) > 0) => AppendixHoldsUnmatched(v)

\* C4 as amended: the same, for a Markdown with at least one recorded heading.
C4_UnmatchedAppendedWithHeadings == Linking => C4_AmendedIn(Render)

C4_WitnessIn(v) ==
  /\ Len(v.sections) = 2
  /\ MatchedAssets(v) # {}
  /\ UnmatchedAssets(v) # {}
  /\ v.appendixPos <= Len(v.output)

\* an unmatched asset is appended after the section of a matched one
C4_Witness == Linking /\ C4_WitnessIn(Render)

C5_StatedIn(v) ==
  \A i, j \in 1..Len(v.outSections) :
    (i < j /\ v.outSections[i].key = v.outSections[j].key) =>
      \A a \in MatchedAssets(v) : RefsIn(v, i, screenshots[a].name) = {}

\* C5 as stated: when two recorded headings have the same key, only the later
\* one's section receives the key's assets; the earlier one receives none.
C5_LaterHeadingWins == Linking => C5_StatedIn(Render)

C5_AmendedIn(v) ==
  \A i, j \in 1..Len(v.outSections) :
    (i < j /\ v.outSections[i].key = v.outSections[j].key) =>
      \A a \in MatchedAssets(v) :
        v.bucket[a] = v.outSections[i].key =>
          /\ Cardinality(RefsIn(v, i, screenshots[a].name)) = NameCount(screenshots[a].name)
          /\ Cardinality(RefsIn(v, j, screenshots[a].name)) = NameCount(screenshots[a].name)

\* C5 as amended: every recorded heading with that key receives the key's
\* assets in its own section, the earlier as well as the later.
C5_EveryHeadingOfKeyReceives == Linking => C5_AmendedIn(Render)

C5_WitnessIn(v) ==
  \E a \in MatchedAssets(v) : \E i, j \in 1..Len(v.sections) :
    /\ i < j
    /\ v.sections[i].key = v.sections[j].key
    /\ v.bucket[a] = v.sections[i].key
    /\ RefsIn(v, j, screenshots[a].name) # {}

\* two headings of one key, and an asset bucketed under it and linked
C5_Witness == Linking /\ C5_WitnessIn(Render)

\* the places an asset is filed in by the grouping
InBucket(v, key, img) ==
  IF key \in DOMAIN v.byKey THEN Occurrences(v.byKey[key], img) ELSE 0

FiledOnlyIn(v, key, img) ==
  /\ InBucket(v, key, img) = Occurrences(screenshots, img)
  /\ Occurrences(v.unmatched, img) = 0
  /\ \A k \in DOMAIN v.byKey : k # key => InBucket(v, k, img) = 0

C6_In(v) ==
  \A a \in 1..Len(screenshots) :
    LET img  == screenshots[a]
        m    == nameMatch(img.name)
        keys == SectionKeys(v.sections)
    IN  IF m.matched /\ exactKey(m) # nullStr /\ exactKey(m) \in keys
        THEN FiledOnlyIn(v, exactKey(m), img)
        ELSE IF m.matched /\ major(m) \in keys
        THEN FiledOnlyIn(v, major(m), img)
        ELSE /\ Occurrences(v.unmatched, img) = Occurrences(screenshots, img)
             /\ \A k \in DOMAIN v.byKey : InBucket(v, k, img) = 0

\* C6: an asset with a major.minor prefix is bucketed under major.minor when a
\* heading has exactly that key (even if a heading with key major exists too),
\* otherwise under major when a heading has that key, otherwise it is
\* unmatched; every asset is in exactly one bucket or in the unmatched list.
C6_ExactKeyPrecedence == C6_In(Render)

C6_WitnessIn(v) ==
  \E a \in 1..Len(screenshots) :
    LET m == nameMatch(screenshots[a].name)
    IN  /\ m.matched
        /\ exactKey(m) # nullStr
        /\ exactKey(m) \in SectionKeys(v.sections)
        /\ major(m) \in SectionKeys(v.sections)
        /\ InBucket(v, exactKey(m), screenshots[a]) > 0

\* a major.minor asset, with headings for both its exact key and its major
C6_Witness == C6_WitnessIn(Render)

(***************************************************************************)
(* Properties of the Paginator                                             *)
(***************************************************************************)
RECURSIVE Flatten(_)
Flatten(parts) == IF parts = <<>> THEN <<>> ELSE parts[1] \o Flatten(Tail(parts))

\* the markup a child node stands for
MarkupOf(el) == IF el.outerHTML # <<>> THEN el.outerHTML ELSE el.textContent

\* a child node with something to print: not a rule, not whitespace-only text
Renderable(el) ==
  /\ el.tagName # "HR"
  /\ \E i \in 1..Len(MarkupOf(el)) : ~(MarkupOf(el)[i].kind = "text" /\ MarkupOf(el)[i].ws)

AllMarkup == Flatten([i \in 1..Len(childNodes) |-> MarkupOf(childNodes[i])])

RenderableMarkup ==
  Flatten([i \in 1..Len(childNodes) |->
             IF Renderable(childNodes[i]) THEN MarkupOf(childNodes[i]) ELSE <<>>])

HasRenderable == \E i \in 1..Len(childNodes) : Renderable(childNodes[i])

HeadingNames == {"h1", "h2", "h3", "h4", "h5", "h6"}

\* the page body is one heading element and nothing else
IsSingleHeading(page, names) ==
  /\ Len(page) >= 2
  /\ page[1].kind = "open" /\ page[1].tag \in names
  /\ Last(page) = CloseTag(page[1].tag)
  /\ \A i \in 2..(Len(page) - 1) : page[i].kind = "text"

\* C7 as stated: the page bodies, concatenated in page order, are the markup of
\* the whole rendered top-level node sequence.
C7_PagesReconstructAllNodes ==
  pc = "done" => Flatten(sections) = AllMarkup

\* C7 as amended: the page bodies, concatenated in page order, are the markup of
\* the node sequence without its rules (HR) and its whitespace-only text nodes,
\* which are dropped: none of the other nodes is dropped, duplicated or reordered.
C7_PagesReconstructRenderableNodes ==
  pc = "done" => Flatten(sections) = RenderableMarkup

\* a height-aware run that broke a page and dropped a rule
C7_Witness ==
  /\ pc = "done"
  /\ policy = "height"
  /\ Len(sections) >= 2
  /\ flushes >= 1
  /\ \E i \in 1..Len(childNodes) : childNodes[i].tagName = "HR"
  /\ \E i \in 1..Len(childNodes) : childNodes[i].tagName = "IMG"

\* C8 as stated: the height-aware Paginator emits no page that is a single
\* heading element when further content follows it (every page but the last is
\* followed by content).
C8_NoLoneHeadingPage ==
  (pc = "done" /\ policy = "height") =>
    \A k \in 1..(Len(sections) - 1) : ~IsSingleHeading(sections[k], HeadingNames)

\* C8 as amended: the height-aware Paginator emits a page that is a single
\* h1-h4 heading element with content after it only when the next node is an
\* H2, which always starts a page; a height overflow never leaves such a
\* heading alone on its page.
C8_LoneHeadingOnlyBeforeH2 ==
  (pc = "done" /\ policy = "height") =>
    \A k \in 1..(Len(sections) - 1) :
      IsSingleHeading(sections[k], HeadingTags14) => sections[k + 1][1] = OpenTag("h2")

\* a heading kept on the page of the over-long paragraph that follows it
C8_Witness ==
  /\ pc = "done"
  /\ policy = "height"
  /\ \E k \in 1..Len(sections) :
       /\ Len(sections[k]) = 6
       /\ sections[k][1] = OpenTag("h1")
       /\ sections[k][4] = OpenTag("p")
       /\ sections[k][5] = Text(2700)

\* C9 as stated: a sequence with renderable content yields at least one page,
\* no page is empty, and for a non-empty sequence the number of pages is the
\* number of breaks taken in the walk plus one.
C9_PagesAreBreaksPlusOne ==
  pc = "done" =>
    /\ HasRenderable => Len(sections) >= 1
    /\ \A k \in 1..Len(sections) : TrimMarkup(sections[k]) # <<>>
    /\ childNodes # <<>> => Len(sections) = flushes + 1

\* C9 as amended: the same, the count holding for a sequence with renderable
\* content; a sequence without any yields no page and no break.
C9_PagesAreBreaksPlusOneIfRenderable ==
  pc = "done" =>
    /\ HasRenderable => Len(sections) >= 1
    /\ \A k \in 1..Len(sections) : TrimMarkup(sections[k]) # <<>>
    /\ HasRenderable => Len(sections) = flushes + 1
    /\ ~HasRenderable => (Len(sections) = 0 /\ flushes = 0)

\* a walk that took two breaks and emitted three pages
C9_Witness ==
  /\ pc = "done"
  /\ flushes = 2
  /\ Len(sections) = 3
  /\ \E i \in 1..Len(childNodes) : ~Renderable(childNodes[i])

\* the entry the walk visits next
Visited == IF policy = "height" THEN nodes[idx + 1].html ELSE MarkupOf(childNodes[idx + 1])

VisitsH2 ==
  /\ pc = "split"
  /\ idx' = idx + 1
  /\ Visited[1] = OpenTag("h2")

H2OnlyFirstIn(page) == \A i \in 2..Len(page) : page[i] # OpenTag("h2")

\* C10: every H2 is the first node of its page; an H2 met on a non-empty page
\* flushes that page and starts a new one with the H2, an H2 met on an empty
\* page starts no extra page.
C10_H2StartsItsPage ==
  /\ [](/\ \A k \in 1..Len(sections) : H2OnlyFirstIn(sections[k])
        /\ H2OnlyFirstIn(currentSection))
  /\ [][VisitsH2 =>
          /\ currentSection' = Visited
          /\ IF TrimMarkup(currentSection) # <<>>
             THEN sections' = Append(sections, currentSection)
             ELSE sections' = sections]_vars

\* an H2 opened the first page without a break and a later H2 broke the page
C10_Witness ==
  /\ pc = "done"
  /\ Len(sections) >= 2
  /\ sections[1][1] = OpenTag("h2")
  /\ sections[2][1] = OpenTag("h2")
  /\ Len(sections) = flushes + 1

(***************************************************************************)
(* Properties of the overflow rule and of the page heights                 *)
(***************************************************************************)
\* the markup of the collected entries a..b
NodesHTML(a, b) == Flatten([i \in 1..(b - a + 1) |-> nodes[a + i - 1].html])

RECURSIVE SumHeights(_, _)
SumHeights(a, b) ==
  IF b < a THEN 0 ELSE SumHeights(a, b - 1) + estimateHeight(nodes[b])

\* the index of the last entry of the page that starts with entry a
PageEnd(a, page) == CHOOSE b \in a..Len(nodes) : NodesHTML(a, b) = page

\* the index of the first entry of the k-th emitted page
RECURSIVE PageStart(_)
PageStart(k) ==
  IF k = 1 THEN 1 ELSE PageEnd(PageStart(k - 1), sections[k - 1]) + 1

\* the markup opens with an h1-h4 tag and closes with an h1-h4 tag
HeadingDelimited(page) ==
  /\ page # <<>>
  /\ page[1] \in {OpenTag(h) : h \in HeadingTags14}
  /\ Last(page) \in {CloseTag(h) : h \in HeadingTags14}

\* the walk visits an entry that overflows the non-empty page being filled
\* and is not an H2
VisitsOverflow ==
  /\ pc = "split"
  /\ policy = "height"
  /\ idx' = idx + 1
  /\ nodes[idx + 1].tag # "H2"
  /\ TrimMarkup(currentSection) # <<>>
  /\ currentHeight + estimateHeight(nodes[idx + 1]) > MAX_PAGE_HEIGHT

\* C11 as stated: a node that is not an H2 and overflows the non-empty current
\* page flushes that page and becomes the first node of a new page, unless the
\* current page is only a bare heading; then no break is taken and the node
\* is placed on the heading's page.
C11_OverflowBreaksUnlessBareHeading ==
  [][VisitsOverflow =>
       IF IsSingleHeading(currentSection, HeadingNames)
       THEN /\ sections' = sections
            /\ currentSection' = currentSection \o nodes[idx + 1].html
       ELSE /\ sections' = Append(sections, currentSection)
            /\ currentSection' = nodes[idx + 1].html]_vars

\* C12 as stated: the estimated heights of the nodes of every page emitted by
\* the height-aware Paginator sum to at most the page budget.
C12_PagesHeightBounded ==
  (pc = "done" /\ policy = "height") =>
    \A k \in 1..Len(sections) :
      SumHeights(PageStart(k), PageEnd(PageStart(k), sections[k])) <= MAX_PAGE_HEIGHT

\* C12 as amended: on every page emitted by the height-aware Paginator, every
\* node after the first keeps the running sum of estimated heights within the
\* budget, unless the markup placed on the page before it opens with an h1-h4
\* tag and closes with an h1-h4 tag; the first node of a page is placed
\* whatever its height.
C12_PagesHeightBoundedAfterFirstNode ==
  (pc = "done" /\ policy = "height") =>
    \A k \in 1..Len(sections) :
      LET a == PageStart(k)
          b == PageEnd(a, sections[k])
      IN  \A j \in (a + 1)..b :
            \/ SumHeights(a, j) <= MAX_PAGE_HEIGHT
            \/ HeadingDelimited(NodesHTML(a, j - 1))

\* a page filled to 825 of 880 by a paragraph and two images, the third image
\* moved to the next page
C12_Witness ==
  /\ pc = "done"
  /\ policy = "height"
  /\ Len(sections) = 2
  /\ Len(nodes) = 4
  /\ PageEnd(1, sections[1]) = 3
  /\ SumHeights(1, 3) = 825
  /\ nodes[4].isImage

(***************************************************************************)
(* Properties of the Page Composer                                         *)
(***************************************************************************)
\* the footer reads "<k> / <n>"
FooterReads(footer, k, n) ==
  LET words == Split(footer, " ")
  IN  /\ Len(words) = 3
      /\ words[2] = <<"/">>
      /\ words[1] # <<>> /\ \A i \in 1..Len(words[1]) : words[1][i] \in Digits
      /\ words[3] # <<>> /\ \A i \in 1..Len(words[3]) : words[3][i] \in Digits
      /\ ParseInt(words[1]) = k
      /\ ParseInt(words[3]) = n

\* C13: the composed document has one page shell per page body, in the same
\* order; the footer of the k-th shell reads "k / N", where N is the number
\* of shells emitted.
C13_ShellsNumberedOfTotal ==
  pc = "composed" =>
    /\ Len(sectionHTML) = Len(sections)
    /\ \A k \in 1..Len(sectionHTML) :
         /\ sectionHTML[k].body = sections[k]
         /\ FooterReads(sectionHTML[k].footer, k, Len(sectionHTML))

\* a document of three page shells with a logo in every header
C13_Witness ==
  /\ pc = "composed"
  /\ Len(sectionHTML) = 3
  /\ sectionHTML[3].footer = <<"3", " ", "/", " ", "3">>
  /\ sectionHTML[1].header # <<>>
  /\ sectionHTML[1].body # sectionHTML[2].body

(***************************************************************************)
(* Properties of the export                                                *)
(***************************************************************************)
Settled == {"complete", "loaded", "errored"}

AllSettled == \A i \in 1..Len(imgs) : imgs[i] \in Settled

\* C14: the print facility is invoked only when every image of the print
\* window has settled (complete, loaded or errored): the print timer is armed
\* only then, and no image is pending at the moment of print().
C14_PrintOnlyAfterAllSettled ==
  /\ [](step = "timer" => AllSettled)
  /\ [][prints' # prints => (step = "timer" /\ AllSettled)]_vars

\* an export printed after one image loaded and another errored
C14_Witness ==
  /\ prints >= 1
  /\ \E i \in 1..Len(imgs) : imgs[i] = "errored"
  /\ \E i \in 1..Len(imgs) : imgs[i] = "loaded"

\* C15: every export that wrote its document eventually calls print() and
\* clears the generating flag, whatever the result of the print dialog; a
\* document without images arms the print at once, with no image event.
C15_ExportEventuallyPrints ==
  /\ \A n \in 1..MaxExports :
       (writes = n /\ step \in {"awaiting", "timer"})
         ~> (prints = n /\ ~isGenerating /\ step = "idle")
  /\ [][(writes' = writes + 1 /\ Len(imgs') = 0) => step' = "timer"]_vars

\* an export with an errored image whose print dialog was cancelled
C15_Witness ==
  /\ prints = writes
  /\ prints >= 1
  /\ ~isGenerating
  /\ step = "idle"
  /\ printResult = "cancelled"
  /\ \E i \in 1..Len(imgs) : imgs[i] = "errored"

\* C16: when window.open returns null the export alerts once, writes no
\* document, calls print() never, and ends with the generating flag cleared;
\* no window is opened again without a new click.
C16_PopupBlockedAborts ==
  /\ [](/\ alerts = opens - writes
        /\ prints <= writes
        /\ opens <= clicks
        /\ (step = "idle" => ~isGenerating))
  /\ [][(opens' = opens + 1 /\ writes' = writes) =>
          /\ alerts' = alerts + 1
          /\ sectionHTML' = sectionHTML
          /\ prints' = prints
          /\ isGenerating' = FALSE
          /\ step' = "idle"]_vars

\* a blocked export, back to idle with nothing written or printed
C16_Witness ==
  /\ alerts = 1
  /\ opens = 1
  /\ writes = 0
  /\ prints = 0
  /\ sectionHTML = <<>>
  /\ step = "idle"
  /\ ~isGenerating

(***************************************************************************)
(* Properties of the rendering of image references                         *)
(***************************************************************************)
\* C17 as stated: every image reference whose basename is not in the Asset
\* Index renders as a placeholder carrying that basename, and no reference
\* renders as nothing.
C17_UnresolvedRendersPlaceholder ==
  \A r \in RefPool :
    LET out == imgComponent(screenshots, r)
    IN  /\ AfterLastSlash(r) \notin NamesHeld =>
             (out.kind = "placeholder" /\ out.text = AfterLastSlash(r))
        /\ out.kind # "null"

\* C17 as amended: the same for every reference with a non-empty source; a
\* reference with an empty source renders as nothing.
C17_NonEmptyUnresolvedRendersPlaceholder ==
  \A r \in RefPool :
    LET out == imgComponent(screenshots, r)
    IN  IF r = <<>> THEN out.kind = "null"
        ELSE /\ AfterLastSlash(r) \notin NamesHeld =>
                  (out.kind = "placeholder" /\ out.text = AfterLastSlash(r))
             /\ out.kind \in {"img", "placeholder"}

\* one reference renders as an image while another, whose name no asset
\* has, renders as the placeholder with its basename
C17_Witness ==
  /\ screenshots # <<>>
  /\ imgComponent(screenshots, <<"x", "/", "0", "1", "_", "a">>).kind = "img"
  /\ imgComponent(screenshots, <<"/", "2", "_", "a">>) = RenderPlaceholder(<<"2", "_", "a">>)

(***************************************************************************)
(* Properties of the asset collection and of the Asset Index               *)
(***************************************************************************)
\* the position of the last asset of the collection with this name
LastNamed(name) == Max({i \in 1..Len(screenshots) : screenshots[i].name = name})

\* C18: after any sequence of upload batches and removals, the Asset Index
\* holds exactly the names of the collection, and maps each of them to the
\* content of the last asset of the collection with that name.
C18_IndexLastUploadWins ==
  LET index == imageMap(screenshots)
  IN  /\ DOMAIN index = NamesHeld
      /\ \A name \in NamesHeld : index[name] = screenshots[LastNamed(name)].dataUrl

\* after a removal and a second upload, two assets share a name and the
\* index holds the content of the later one, which differs from the earlier
C18_Witness ==
  /\ Len(screenshots) = 2
  /\ screenshots[1].file = <<1, 2>>
  /\ screenshots[2].file = <<2, 1>>
  /\ screenshots[1].name = screenshots[2].name
  /\ screenshots[1].dataUrl # screenshots[2].dataUrl
  /\ imageMap(screenshots)[screenshots[1].name] = screenshots[2].dataUrl

\* the files of the b-th upload that are in the collection
PresentOf(b) ==
  {i \in 1..Len(uploads[b].files) :
     \E k \in 1..Len(screenshots) : screenshots[k].file = <<b, i>>}

Publishes(b) == uploads'[b].published /\ ~uploads[b].published

\* C20: publishing an upload appends its assets, in their order, after the
\* assets held before, which stay present, unchanged and in the same order,
\* whatever other uploads are in flight or were published in between.
C20_PublishAppends ==
  [][\A b \in 1..Len(uploads) :
       Publishes(b) =>
         screenshots' = screenshots \o loadedImagesOf(b, uploads[b].files)]_vars

\* the upload started second was published first, and the upload started
\* first was appended after it
C20_Witness ==
  /\ Len(uploads) = 2
  /\ uploads[1].published
  /\ uploads[2].published
  /\ Len(screenshots) >= 3
  /\ screenshots[1].file[1] = 2
  /\ screenshots[Len(screenshots)].file[1] = 1

(***************************************************************************)
(* C22: the split at second-level headings is the height-aware split run   *)
(* with estimated heights treated as zero.  As stated, only the heights of *)
(* the non-heading nodes are zero; as amended, the heights of all nodes.   *)
(***************************************************************************)
HeadingTagNames == {"H1", "H2", "H3", "H4", "H5", "H6"}

\* the height-aware split of a node list with estimated heights set to zero,
\* for all nodes or for all but the headings
RECURSIVE SplitZeroed(_, _, _)
SplitZeroed(st, ns, keepHeadings) ==
  IF ns = <<>> THEN st
  ELSE LET h == IF keepHeadings /\ ns[1].tag \in HeadingTagNames
                THEN estimateHeight(ns[1]) ELSE 0
       IN  SplitZeroed(splitNodeAt(st, ns[1], h), Tail(ns), keepHeadings)

PagesZeroed(els, keepHeadings) ==
  finalFlush(SplitZeroed([sections |-> <<>>, currentSection |-> <<>>,
                          currentHeight |-> 0, flushes |-> 0],
                         collectNodes(els), keepHeadings)).sections

C22_H2SplitIsZeroNonHeadingSplit ==
  (pc = "done" /\ policy = "h2") => sections = PagesZeroed(childNodes, TRUE)

C22_H2SplitIsZeroHeightSplit ==
  (pc = "done" /\ policy = "h2") => sections = PagesZeroed(childNodes, FALSE)

\* a split at second-level headings of several pages, on nodes that the
\* height-aware split with the estimated heights lays out differently
C22_Witness ==
  /\ pc = "done"
  /\ policy = "h2"
  /\ Len(sections) >= 2
  /\ sections = PagesZeroed(childNodes, FALSE)
  /\ sections # paginate(childNodes)

(***************************************************************************)
(* C23: the Auto-Linker only inserts.  The elements of the result array    *)
(* other than the inserted image references and the appendix are the input *)
(* lines in their order; every insertion point is computed on a result     *)
(* array whose lines up to that point are still the input's; the loaded    *)
(* text is not changed by a render.                                        *)
(***************************************************************************)
HasMatched(v, i) ==
  v.sections[i].key \in DOMAIN v.byKey /\ v.byKey[v.sections[i].key] # <<>>

\* the result array when the loop reaches the i-th recorded heading, that is
\* after the iterations of the headings behind it
RECURSIVE ResultBefore(_, _)
ResultBefore(v, i) ==
  IF i = Len(v.sections) THEN v.lines
  ELSE LET r == ResultBefore(v, i + 1)
       IN  IF HasMatched(v, i + 1)
           THEN Splice(r, insertAt(r, v.sections, i + 1),
                       imageLines(v.byKey[v.sections[i + 1].key]))
           ELSE r

\* the result array that is joined into the output
ResultArray(v) == ResultBefore(v, 0) \o Appendix(v.unmatched)

\* the inserted elements carry line breaks of their own, the input lines none
IsInputLine(l) == \A k \in 1..Len(l) : l[k] # "\n"

InputLinesOf(result) == SelectSeq(result, IsInputLine)

C23_In(v) ==
  IF Linking /\ v.sections # <<>>
  THEN /\ processedMarkdown = Join(ResultArray(v), "\n")
       /\ InputLinesOf(ResultArray(v)) = v.lines
       /\ \A i \in 1..Len(v.sections) :
            HasMatched(v, i) =>
              LET r  == ResultBefore(v, i)
                  at == insertAt(r, v.sections, i)
              IN  /\ at = insertAt(v.lines, v.sections, i)
                  /\ SubSeq(r, 1, at) = SubSeq(v.lines, 1, at)
  ELSE processedMarkdown = markdownContent

C23_LinkerOnlyInserts ==
  /\ [](C23_In(Render))
  /\ [][markdownContent' = markdownContent]_vars

\* two recorded headings have both received image references
C23_WitnessIn(v) ==
  /\ Linking
  /\ \E i, j \in 1..Len(v.sections) : i < j /\ HasMatched(v, i) /\ HasMatched(v, j)
  /\ Len(ResultArray(v)) >= Len(v.lines) + 2

C23_Witness == C23_WitnessIn(Render)

(***************************************************************************)
(* C24: where the image lines of a matched heading go.  Before the next    *)
(* recorded heading, or before the rule between the two headings (the one  *)
(* nearest to the next heading if there are several); at the end of the    *)
(* text for the last recorded heading.  As stated, the images then follow  *)
(* all the content of their section.                                       *)
(***************************************************************************)
\* 0-based indices of the rules between the i-th recorded heading and the next
RulesOf(v, i) ==
  {j \in (v.sections[i].lineIndex + 1)..(v.sections[i + 1].lineIndex - 1) :
     Trim(v.lines[j + 1]) = SeparatorLine}

\* 0-based index the claim gives for the image lines of the i-th heading
ClaimedInsertAt(v, i) ==
  IF i = Len(v.sections) THEN Len(v.lines)
  ELSE IF RulesOf(v, i) = {} THEN v.sections[i + 1].lineIndex
  ELSE Max(RulesOf(v, i))

\* the image lines of the i-th heading stand at that index once its iteration
\* has run
InsertedAt(v, i, at) ==
  LET imgsOf == imageLines(v.byKey[v.sections[i].key])
  IN  SubSeq(ResultBefore(v, i - 1), at + 1, at + Len(imgsOf)) = imgsOf

\* 0-based indices of the lines of the i-th section with text of their own
\* (neither blank nor a rule) at or behind index at
ContentBehind(v, i, at) ==
  {j \in at..((IF i = Len(v.sections) THEN Len(v.lines)
                ELSE v.sections[i + 1].lineIndex) - 1) :
     Trim(v.lines[j + 1]) \notin {<<>>, SeparatorLine}}

C24_AmendedIn(v) ==
  (Linking /\ v.sections # <<>>) =>
    \A i \in 1..Len(v.sections) :
      HasMatched(v, i) =>
        /\ insertAt(ResultBefore(v, i), v.sections, i) = ClaimedInsertAt(v, i)
        /\ InsertedAt(v, i, ClaimedInsertAt(v, i))

C24_StatedIn(v) ==
  (Linking /\ v.sections # <<>>) =>
    \A i \in 1..Len(v.sections) :
      HasMatched(v, i) =>
        /\ insertAt(ResultBefore(v, i), v.sections, i) = ClaimedInsertAt(v, i)
        /\ InsertedAt(v, i, ClaimedInsertAt(v, i))
        /\ ContentBehind(v, i, ClaimedInsertAt(v, i)) = {}

C24_WitnessIn(v) ==
  /\ Linking
  /\ \E i \in 1..(Len(v.sections) - 1) :
       /\ HasMatched(v, i)
       /\ RulesOf(v, i) # {}
       /\ ContentBehind(v, i, ClaimedInsertAt(v, i)) # {}
       /\ InsertedAt(v, i, ClaimedInsertAt(v, i))

HeadingNumbers(v, i) ==
  LET line == v.lines[v.sections[i].lineIndex + 1]
  IN  IF v.sections[i].level = 2
      THEN [major |-> ParseInt(h2Match(line).g1), minor |-> -1]
      ELSE [major |-> ParseInt(h3Match(line).g1), minor |-> ParseInt(h3Match(line).g2)]

\* the numbers a file name opens with (-1: no minor)
AssetNumbers(img) ==
  LET m == nameMatch(img.name)
  IN  [major |-> ParseInt(m.g1),
       minor |-> IF m.g2 # nullStr THEN ParseInt(m.g2) ELSE -1]

C25_In(v) ==
  (Linking /\ v.sections # <<>>) =>
    \A a \in 1..Len(screenshots) :
      \A i \in 1..Len(v.sections) :
        (nameMatch(screenshots[a].name).matched
           /\ AssetNumbers(screenshots[a]) = HeadingNumbers(v, i))
          => InBucket(v, v.sections[i].key, screenshots[a]) >= 1

C25_KeysComparedAsNumbers == C25_In(Render)

(***************************************************************************)
(* C26: the image wait is a counter join that fires once.  The counter is  *)
(* the number of settled images and never exceeds the image total; every   *)
(* image event settles one image and adds one; print() is called at most   *)
(* once per written document and only with the counter at the total; the   *)
(* print is armed exactly while all images are settled and the document    *)
(* is not printed yet.                                                     *)
(***************************************************************************)
SettledImgs == {i \in 1..Len(imgs) : imgs[i] \in Settled}

C26_CounterJoinFiresOnce ==
  /\ [](loaded = Cardinality(SettledImgs) /\ loaded <= Len(imgs))
  /\ [](prints <= writes /\ writes <= prints + 1 /\ writes <= clicks)
  /\ []((step = "timer") <=> (writes = prints + 1 /\ AllSettled))
  /\ []((step = "idle") => prints = writes)
  /\ [][(imgs' # imgs /\ writes' = writes) =>
          /\ loaded' = loaded + 1
          /\ \E i \in 1..Len(imgs) :
               /\ imgs[i] = "pending"
               /\ imgs' = [imgs EXCEPT ![i] = imgs'[i]]
               /\ imgs'[i] \in {"loaded", "errored"}]_vars
  /\ [][prints' # prints => (prints' = prints + 1 /\ loaded = Len(imgs))]_vars

\* a printed export of several images, one complete when the handlers were
\* set and one counted by its load event
C26_Witness ==
  /\ prints = writes
  /\ prints >= 1
  /\ Len(imgs) >= 2
  /\ loaded = Len(imgs)
  /\ \E i \in 1..Len(imgs) : imgs[i] = "complete"
  /\ \E i \in 1..Len(imgs) : imgs[i] = "loaded"

(***************************************************************************)
(* C27: the generating flag is set exactly while an export is under way,   *)
(* the button is disabled while the flag is set, and so an export is       *)
(* started only when no other export is in flight.                         *)
(***************************************************************************)
C27_FlagGuardsExport ==
  /\ [](isGenerating <=> step # "idle")
  /\ [](isGenerating => disabled)
  /\ [][clicks' # clicks => (step = "idle" /\ ~isGenerating /\ isGenerating')]_vars

\* a second export under way after the first one was printed
C27_Witness ==
  /\ clicks = 2
  /\ prints = 1
  /\ isGenerating
  /\ disabled
  /\ step = "awaiting"

(***************************************************************************)
(* C28: an export works on the session as it was when it was requested.    *)
(* The page shells written to the print window are the pages of the        *)
(* preview of that moment under the logo of that moment.                   *)
(***************************************************************************)
C28_ExportUsesRequestSnapshot ==
  [][writes' = writes + 1 =>
       sectionHTML' = composeSectionHTML(paginate(requested.childNodes),
                                         requested.logo)]_vars

(***************************************************************************)
(* C29: once every read of a picked Markdown file is done, the loaded text *)
(* is the text of the file picked last, the one held in mdFile.            *)
(***************************************************************************)
C29_ContentIsLastSelected ==
  (mdReads # <<>> /\ \A r \in 1..Len(mdReads) : mdReads[r].done)
    => (/\ mdFile = mdReads[Len(mdReads)].file
        /\ markdownContent = MdText(mdFile))

(***************************************************************************)
(* C30: every upload batch whose reads have all ended, with the file's     *)
(* bytes or with an error, is eventually published.                        *)
(***************************************************************************)
ReadsEnded(b) ==
  /\ Len(uploads) >= b
  /\ uploads[b].decoded \cup uploads[b].failed = 1..Len(uploads[b].files)

C30_BatchEventuallyPublished ==
  \A b \in 1..MaxBatches :
    ReadsEnded(b) ~> (Len(uploads) >= b /\ uploads[b].published)

(***************************************************************************)
(* C21: in every reachable state in which no Markdown content is loaded    *)
(* the export button is disabled.                                          *)
(***************************************************************************)
C21_NoMarkdownControlDisabled == markdownContent = <<>> => disabled

====
